---- MODULE Spec2Model ----
(***************************************************************************)
(* The GDB JIT compilation interface of substratevm:                       *)
(*   gdbJITCompilationInterface.c  (register_jit_code, unregister_jit_code)*)
(*   gdb_jit_compilation_interface.h (jit_code_entry, jit_descriptor)      *)
(*                                                                         *)
(* Every C statement that reads or writes memory shared with the debugger  *)
(* is one action, named after its source line (r20 .. r39 for              *)
(* register_jit_code, u45 .. u65 for unregister_jit_code).  The state at   *)
(* pc = "r37" / "u63" is the state the notification hook is invoked in.    *)
(***************************************************************************)
EXTENDS Integers, Sequences, FiniteSets

(* ------------------------------ bounds -------------------------------- *)
\* number of heap cells malloc can hand out
MaxEntries == 3
\* the caller's symbol-file buffers 1..NumBufs; buffer b is b - 1 bytes long
NumBufs == 2

(* ----------------------------- constants ------------------------------ *)
NULL == 0
\* jit_actions_t (the .c file spells the last two JIT_REGISTER_FN, JIT_UNREGISTER_FN)
JIT_NOACTION == 0
JIT_REGISTER_FN == 1
JIT_UNREGISTER_FN == 2

\* the value of a word whose content is indeterminate (malloc'ed and not yet
\* written, or free'd)
INDET == NULL - 1

Threads == {"t1", "t2"}
Addr == 1..MaxEntries
Ptr == Addr \cup {NULL}
\* a pointer value that is neither NULL nor the address of a cell
WILD == MaxEntries + 1
Bufs == 1..NumBufs
BufLen(b) == b - 1
Sizes == {BufLen(b) : b \in Bufs}

\* struct jit_code_entry
jit_code_entry ==
    [next_entry : Ptr \cup {WILD, INDET}, prev_entry : Ptr \cup {WILD, INDET},
     symfile_addr : Bufs \cup {INDET}, symfile_size : Sizes \cup {INDET}]

\* struct jit_descriptor
jit_descriptor ==
    [version : {1}, action_flag : {JIT_NOACTION, JIT_REGISTER_FN, JIT_UNREGISTER_FN},
     relevant_entry : Ptr, first_entry : Ptr]

VARIABLES
    jit_debug_descriptor, \* the global __jit_debug_descriptor
    heap,                 \* memory of the cells malloc hands out
    allocated,            \* cells malloc'ed and not yet free'd
    status,               \* "running", "aborted" (assert), "segv" (NULL store/load)
    pc,                   \* per caller: "idle" or the source line it is at
    entry,                \* per caller: register's local / unregister's parameter
    next_entry,           \* per caller: local next_entry
    prev_entry,           \* per caller: local prev_entry
    addr,                 \* per caller: register's parameter addr
    size,                 \* per caller: register's parameter size
    symfile,              \* the callers' symbol-file buffers (memory the callers own)
    handles,              \* handles returned by register and not yet unregistered
    hooks,                \* per caller: hook invocations during the current call
    call,                 \* the current (or most recent) call and the state it began in
    pair,                 \* the state before a register whose handle is now being unregistered
    given,                \* per handle: the <<addr, size>> it was registered with
    regOrder,             \* the registered handles, oldest first
    drain                 \* the unregister calls since the last register call

code_vars == <<jit_debug_descriptor, heap, allocated, status, pc, entry,
               next_entry, prev_entry, addr, size, symfile>>
ghost_vars == <<handles, hooks, call, pair, given, regOrder, drain>>
vars == <<jit_debug_descriptor, heap, allocated, status, pc, entry,
          next_entry, prev_entry, addr, size, symfile,
          handles, hooks, call, pair, given, regOrder, drain>>

NoCall ==
    [op |-> "none", entry |-> NULL, addr |-> NULL, size |-> 0,
     first |-> NULL, links |-> <<>>, result |-> NULL,
     alloc_failed |-> FALSE, stale |-> FALSE, overlap |-> FALSE,
     mixed |-> FALSE, removed |-> <<NULL, NULL>>, done |-> TRUE]

NoPair == [valid |-> FALSE, entry |-> NULL, first |-> NULL, links |-> <<>>]

\* the next_entry / prev_entry words of every cell
Links(h) == [a \in Addr |-> <<h[a].next_entry, h[a].prev_entry>>]

\* a cell no field of which has a determinate value
Indeterminate ==
    [next_entry |-> INDET, prev_entry |-> INDET,
     symfile_addr |-> INDET, symfile_size |-> INDET]

\* the callers' buffers as the callers made them: buffer b is alive and
\* holds BufLen(b) bytes of b's symbol file
CallerBuffers == [b \in Bufs |-> [freed |-> FALSE, len |-> BufLen(b), bytes |-> b]]

\* struct jit_descriptor __jit_debug_descriptor = { 1, 0, 0, 0 };
Init ==
    /\ jit_debug_descriptor =
          [version |-> 1, action_flag |-> 0, relevant_entry |-> 0, first_entry |-> 0]
    /\ heap = [a \in Addr |-> Indeterminate]
    /\ allocated = {}
    /\ status = "running"
    /\ pc = [t \in Threads |-> "idle"]
    /\ entry = [t \in Threads |-> NULL]
    /\ next_entry = [t \in Threads |-> NULL]
    /\ prev_entry = [t \in Threads |-> NULL]
    /\ addr = [t \in Threads |-> NULL]
    /\ size = [t \in Threads |-> 0]
    /\ symfile = CallerBuffers
    /\ handles = {}
    /\ hooks = [t \in Threads |-> 0]
    /\ call = NoCall
    /\ pair = NoPair
    /\ given = [a \in Addr |-> <<NULL, 0>>]
    /\ regOrder = <<>>
    /\ drain = [n |-> 0, mid |-> FALSE]

Idle == \A t \in Threads : pc[t] = "idle"

\* callers serialise their calls: a call begins when no other is in progress.
\* Once a caller has broken the contract the program's behaviour is undefined;
\* the model follows the violating call to its end and no further.
Callable == status = "running" /\ Idle /\ ~call.stale /\ ~call.overlap

\* a step of caller t from line `from` to line `to`
Goto(t, from, to) ==
    /\ status = "running"
    /\ pc[t] = from
    /\ pc' = [pc EXCEPT ![t] = to]

\* p->f = v.  A store through NULL or a wild pointer is undefined: the process
\* dies of SIGSEGV, or the store lands outside the modelled cells.  A store
\* into a free'd cell is undefined too: the cell's content stays indeterminate.
Store(t, from, to, p, f, v) ==
    /\ status = "running"
    /\ pc[t] = from
    /\ IF p \notin Addr
       THEN /\ \E outcome \in {"segv", "ignored"} :
                 IF outcome = "segv"
                 THEN status' = "segv" /\ pc' = pc
                 ELSE status' = status /\ pc' = [pc EXCEPT ![t] = to]
            /\ heap' = heap
       ELSE /\ heap' = IF p \in allocated THEN [heap EXCEPT ![p][f] = v] ELSE heap
            /\ pc' = [pc EXCEPT ![t] = to]
            /\ status' = status

\* what a load of the pointer p->f can yield.  A load of an indeterminate word
\* (a free'd cell, an unwritten field) is undefined: any pointer can come back.
Load(p, f) == IF heap[p][f] = INDET THEN Ptr \cup {WILD} ELSE {heap[p][f]}

\* the descriptor holds what caller t's own call has stored into it
OwnValues(t) ==
    /\ jit_debug_descriptor.relevant_entry = entry[t]
    /\ IF pc[t] = "r37"
       THEN /\ jit_debug_descriptor.action_flag = JIT_REGISTER_FN
            /\ jit_debug_descriptor.first_entry = entry[t]
       ELSE jit_debug_descriptor.action_flag = JIT_UNREGISTER_FN

\* void __jit_debug_register_code(void) { }  -- the hook the debugger breaks on
jit_debug_register_code(t) ==
    /\ hooks' = [hooks EXCEPT ![t] = @ + 1]
    /\ call' = [call EXCEPT !.mixed = @ \/ ~OwnValues(t)]

(* ------------------------- register_jit_code -------------------------- *)

\* a caller enters register_jit_code(a, BufLen(a)) with one of its buffers
CallRegister(t) ==
    /\ Callable
    /\ Cardinality(allocated) < MaxEntries
    /\ \E a \in Bufs :
          /\ addr' = [addr EXCEPT ![t] = a]
          /\ size' = [size EXCEPT ![t] = BufLen(a)]
          /\ call' = [op |-> "register", entry |-> NULL,
                      addr |-> a, size |-> BufLen(a),
                      first |-> jit_debug_descriptor.first_entry,
                      links |-> Links(heap), result |-> NULL,
                      alloc_failed |-> FALSE, stale |-> FALSE,
                      overlap |-> FALSE, mixed |-> FALSE,
                      removed |-> <<NULL, NULL>>, done |-> FALSE]
    /\ pc' = [pc EXCEPT ![t] = "r20"]
    /\ hooks' = [hooks EXCEPT ![t] = 0]
    /\ pair' = NoPair
    /\ UNCHANGED <<jit_debug_descriptor, heap, allocated, status, entry,
                   next_entry, prev_entry, handles, given, regOrder, drain>>
    /\ UNCHANGED symfile

\* line 20: entry = malloc(sizeof(*entry)), allocation succeeds
r20(t) ==
    /\ Goto(t, "r20", "r21")
    /\ \E a \in Addr \ allocated :
          /\ allocated' = allocated \cup {a}
          /\ entry' = [entry EXCEPT ![t] = a]
          /\ call' = [call EXCEPT !.entry = a]
    /\ UNCHANGED <<jit_debug_descriptor, heap, status, next_entry, prev_entry,
                   addr, size, handles, hooks, pair, given, regOrder, drain>>
    /\ UNCHANGED symfile

\* line 20: malloc returns NULL
r20_fail(t) ==
    /\ Goto(t, "r20", "r21")
    /\ entry' = [entry EXCEPT ![t] = NULL]
    /\ call' = [call EXCEPT !.alloc_failed = TRUE]
    /\ UNCHANGED <<jit_debug_descriptor, heap, allocated, status, next_entry,
                   prev_entry, addr, size, handles, hooks, pair, given,
                   regOrder, drain>>
    /\ UNCHANGED symfile

\* line 21 with the address stored into the current head instead of the new entry
r21_into_head(t) ==
    /\ Store(t, "r21", "r22",
             IF jit_debug_descriptor.first_entry # NULL
             THEN jit_debug_descriptor.first_entry ELSE entry[t],
             "symfile_addr", addr[t])
    /\ UNCHANGED <<jit_debug_descriptor, allocated, entry, next_entry, prev_entry,
                   addr, size, ghost_vars>>
    /\ UNCHANGED symfile

\* line 21: entry->symfile_addr = addr
r21(t) ==
    /\ Store(t, "r21", "r22", entry[t], "symfile_addr", addr[t])
    /\ UNCHANGED <<jit_debug_descriptor, allocated, entry, next_entry, prev_entry,
                   addr, size, ghost_vars>>
    /\ UNCHANGED symfile

\* line 22: entry->symfile_size = size
r22(t) ==
    /\ Store(t, "r22", "r25", entry[t], "symfile_size", size[t])
    /\ UNCHANGED <<jit_debug_descriptor, allocated, entry, next_entry, prev_entry,
                   addr, size, ghost_vars>>
    /\ UNCHANGED symfile

\* line 25 behind a lock held from line 25 to the return
r25_locked(t) ==
    /\ \A u \in Threads \ {t} :
          pc[u] \notin {"r26", "r27", "r29", "r34", "r35", "r36", "r37", "r39"}
    /\ Goto(t, "r25", "r26")
    /\ next_entry' = [next_entry EXCEPT ![t] = jit_debug_descriptor.first_entry]
    /\ UNCHANGED <<jit_debug_descriptor, heap, allocated, status, entry,
                   prev_entry, addr, size, ghost_vars>>
    /\ UNCHANGED symfile

\* line 25: next_entry = __jit_debug_descriptor.first_entry
r25(t) ==
    /\ Goto(t, "r25", "r26")
    /\ next_entry' = [next_entry EXCEPT ![t] = jit_debug_descriptor.first_entry]
    /\ UNCHANGED <<jit_debug_descriptor, heap, allocated, status, entry,
                   prev_entry, addr, size, ghost_vars>>
    /\ UNCHANGED symfile

\* line 26: entry->prev_entry = NULL
r26(t) ==
    /\ Store(t, "r26", "r27", entry[t], "prev_entry", NULL)
    /\ UNCHANGED <<jit_debug_descriptor, allocated, entry, next_entry, prev_entry,
                   addr, size, ghost_vars>>
    /\ UNCHANGED symfile

\* line 27 storing NULL: the new entry is not linked to the old head
r27_null(t) ==
    /\ Store(t, "r27", "r29", entry[t], "next_entry", NULL)
    /\ UNCHANGED <<jit_debug_descriptor, allocated, entry, next_entry, prev_entry,
                   addr, size, ghost_vars>>
    /\ UNCHANGED symfile

\* line 27: entry->next_entry = next_entry
r27(t) ==
    /\ Store(t, "r27", "r29", entry[t], "next_entry", next_entry[t])
    /\ UNCHANGED <<jit_debug_descriptor, allocated, entry, next_entry, prev_entry,
                   addr, size, ghost_vars>>
    /\ UNCHANGED symfile

\* lines 29-31 without the store: the old head keeps its prev_entry
r29_no_backlink(t) ==
    /\ Goto(t, "r29", "r34")
    /\ UNCHANGED <<jit_debug_descriptor, heap, allocated, status, entry,
                   next_entry, prev_entry, addr, size, ghost_vars>>
    /\ UNCHANGED symfile

\* lines 29-31: if (next_entry != NULL) next_entry->prev_entry = entry
r29(t) ==
    /\ IF next_entry[t] # NULL
       THEN Store(t, "r29", "r34", next_entry[t], "prev_entry", entry[t])
       ELSE Goto(t, "r29", "r34") /\ UNCHANGED <<heap, status>>
    /\ UNCHANGED <<jit_debug_descriptor, allocated, entry, next_entry, prev_entry,
                   addr, size, ghost_vars>>
    /\ UNCHANGED symfile

\* line 34: __jit_debug_descriptor.action_flag = JIT_REGISTER_FN
r34(t) ==
    /\ Goto(t, "r34", "r35")
    /\ jit_debug_descriptor' =
          [jit_debug_descriptor EXCEPT !.action_flag = JIT_REGISTER_FN]
    /\ UNCHANGED <<heap, allocated, status, entry, next_entry, prev_entry,
                   addr, size, ghost_vars>>
    /\ UNCHANGED symfile

\* line 35 done only when the list was empty: a later entry goes unlisted
r35_keep_head(t) ==
    /\ Goto(t, "r35", "r36")
    /\ jit_debug_descriptor' =
          [jit_debug_descriptor EXCEPT !.first_entry =
              IF next_entry[t] = NULL THEN entry[t] ELSE next_entry[t]]
    /\ UNCHANGED <<heap, allocated, status, entry, next_entry, prev_entry,
                   addr, size, ghost_vars>>
    /\ UNCHANGED symfile

\* line 35: __jit_debug_descriptor.first_entry = entry
r35(t) ==
    /\ Goto(t, "r35", "r36")
    /\ jit_debug_descriptor' =
          [jit_debug_descriptor EXCEPT !.first_entry = entry[t]]
    /\ UNCHANGED <<heap, allocated, status, entry, next_entry, prev_entry,
                   addr, size, ghost_vars>>
    /\ UNCHANGED symfile

\* line 36 naming the old head instead of the new entry
r36_old_head(t) ==
    /\ Goto(t, "r36", "r37")
    /\ jit_debug_descriptor' =
          [jit_debug_descriptor EXCEPT !.relevant_entry = next_entry[t]]
    /\ UNCHANGED <<heap, allocated, status, entry, next_entry, prev_entry,
                   addr, size, ghost_vars>>
    /\ UNCHANGED symfile

\* line 36: __jit_debug_descriptor.relevant_entry = entry
r36(t) ==
    /\ Goto(t, "r36", "r37")
    /\ jit_debug_descriptor' =
          [jit_debug_descriptor EXCEPT !.relevant_entry = entry[t]]
    /\ UNCHANGED <<heap, allocated, status, entry, next_entry, prev_entry,
                   addr, size, ghost_vars>>
    /\ UNCHANGED symfile

\* line 37: __jit_debug_register_code()
r37(t) ==
    /\ Goto(t, "r37", "r39")
    /\ jit_debug_register_code(t)
    /\ UNCHANGED <<jit_debug_descriptor, heap, allocated, status, entry,
                   next_entry, prev_entry, addr, size,
                   handles, pair, given, regOrder, drain>>
    /\ UNCHANGED symfile

\* line 39: return entry  (the locals go out of scope)
r39(t) ==
    /\ Goto(t, "r39", "idle")
    /\ handles' = IF entry[t] = NULL THEN handles ELSE handles \cup {entry[t]}
    /\ call' = [call EXCEPT !.done = TRUE, !.result = entry[t]]
    /\ given' = IF entry[t] = NULL THEN given
                 ELSE [given EXCEPT ![entry[t]] = <<addr[t], size[t]>>]
    /\ regOrder' = IF entry[t] = NULL THEN regOrder ELSE Append(regOrder, entry[t])
    /\ drain' = [n |-> 0, mid |-> FALSE]
    /\ hooks' = [hooks EXCEPT ![t] = 0]
    /\ entry' = [entry EXCEPT ![t] = NULL]
    /\ next_entry' = [next_entry EXCEPT ![t] = NULL]
    /\ addr' = [addr EXCEPT ![t] = NULL]
    /\ size' = [size EXCEPT ![t] = 0]
    /\ UNCHANGED <<jit_debug_descriptor, heap, allocated, status, prev_entry,
                   pair>>
    /\ UNCHANGED symfile

register_jit_code(t) ==
    \/ r20(t) \/ r21(t) \/ r22(t) \/ r25(t) \/ r26(t) \/ r27(t)
    \/ r29(t) \/ r34(t) \/ r35(t) \/ r36(t) \/ r37(t) \/ r39(t)

RegisterLines == {"r20", "r21", "r22", "r25", "r26", "r27", "r29", "r34", "r35",
                  "r36", "r37", "r39"}

\* callers that do not serialise: t calls register_jit_code whether or not
\* another caller's register_jit_code is in progress; nothing in the file
\* makes t wait.  The buffer plays no part in what the calls do to the list:
\* these callers all pass the same one.  Once two calls have overlapped the
\* model follows them to their returns and no further.
CallRegisterUnserialised(t) ==
    /\ status = "running"
    /\ pc[t] = "idle"
    /\ ~call.overlap
    /\ Cardinality(allocated) + Cardinality({u \in Threads : pc[u] = "r20"}) < MaxEntries
    /\ LET a == CHOOSE b \in Bufs : \A c \in Bufs : b <= c
       IN  /\ addr' = [addr EXCEPT ![t] = a]
           /\ size' = [size EXCEPT ![t] = BufLen(a)]
           /\ call' = IF Idle
                      THEN [op |-> "register", entry |-> NULL,
                            addr |-> a, size |-> BufLen(a),
                            first |-> jit_debug_descriptor.first_entry,
                            links |-> Links(heap), result |-> NULL,
                            alloc_failed |-> FALSE, stale |-> FALSE,
                            overlap |-> FALSE, mixed |-> FALSE,
                            removed |-> <<NULL, NULL>>, done |-> FALSE]
                      ELSE [call EXCEPT !.overlap = TRUE]
    /\ pc' = [pc EXCEPT ![t] = "r20"]
    /\ hooks' = [hooks EXCEPT ![t] = 0]
    /\ pair' = NoPair
    /\ UNCHANGED <<jit_debug_descriptor, heap, allocated, status, entry,
                   next_entry, prev_entry, handles, given, regOrder, drain>>
    /\ UNCHANGED symfile

(* ------------------------ unregister_jit_code ------------------------- *)

\* what a caller entering unregister_jit_code(e) records
BeginUnregister(t, e, isStale) ==
    /\ entry' = [entry EXCEPT ![t] = e]
    /\ pc' = [pc EXCEPT ![t] = "u45"]
    /\ hooks' = [hooks EXCEPT ![t] = 0]
    /\ call' = [op |-> "unregister", entry |-> e,
                addr |-> given[e][1], size |-> given[e][2],
                first |-> jit_debug_descriptor.first_entry,
                links |-> Links(heap), result |-> NULL,
                alloc_failed |-> FALSE, stale |-> isStale,
                overlap |-> FALSE, mixed |-> FALSE,
                removed |-> IF isStale THEN call.removed ELSE Links(heap)[e],
                done |-> FALSE]
    /\ pair' = IF /\ call.op = "register" /\ call.done /\ call.entry = e
                  /\ ~isStale
               THEN [valid |-> TRUE, entry |-> e, first |-> call.first,
                     links |-> call.links]
               ELSE NoPair
    /\ UNCHANGED <<jit_debug_descriptor, heap, allocated, status,
                   next_entry, prev_entry, addr, size>>
    /\ UNCHANGED symfile

\* a caller enters unregister_jit_code(e) with a handle register returned
\* and that has not been unregistered; callers serialise their calls
CallUnregister(t) ==
    /\ Callable
    /\ \E e \in handles :
          /\ BeginUnregister(t, e, FALSE)
          /\ handles' = handles \ {e}
          /\ given' = [given EXCEPT ![e] = <<NULL, 0>>]
          /\ regOrder' = SelectSeq(regOrder, LAMBDA x : x # e)
          /\ drain' = [n |-> drain.n + 1,
                       mid |-> drain.mid \/ (e # Head(regOrder) /\ e # regOrder[Len(regOrder)])]

\* contract violation: a caller passes again the handle that the last call,
\* an unregister_jit_code, was given; the entry has been free'd
CallUnregisterAgain(t) ==
    /\ Callable
    /\ call.op = "unregister"
    /\ call.entry \in Addr \ handles
    /\ BeginUnregister(t, call.entry, TRUE)
    /\ UNCHANGED <<handles, given, regOrder, drain>>

\* line 45: prev_entry = entry->prev_entry
u45(t) ==
    /\ Goto(t, "u45", "u46")
    /\ \E v \in Load(entry[t], "prev_entry") :
          prev_entry' = [prev_entry EXCEPT ![t] = v]
    /\ UNCHANGED <<jit_debug_descriptor, heap, allocated, status, entry,
                   next_entry, addr, size, ghost_vars>>
    /\ UNCHANGED symfile

\* line 46: next_entry = entry->next_entry
u46(t) ==
    /\ Goto(t, "u46", "u49")
    /\ \E v \in Load(entry[t], "next_entry") :
          next_entry' = [next_entry EXCEPT ![t] = v]
    /\ UNCHANGED <<jit_debug_descriptor, heap, allocated, status, entry,
                   prev_entry, addr, size, ghost_vars>>
    /\ UNCHANGED symfile

\* lines 49-51 without the store: the successor keeps pointing at the entry
u49_no_relink(t) ==
    /\ Goto(t, "u49", "u53")
    /\ UNCHANGED <<jit_debug_descriptor, heap, allocated, status, entry,
                   next_entry, prev_entry, addr, size, ghost_vars>>
    /\ UNCHANGED symfile

\* lines 49-51: if (next_entry != NULL) next_entry->prev_entry = prev_entry
u49(t) ==
    /\ IF next_entry[t] # NULL
       THEN Store(t, "u49", "u53", next_entry[t], "prev_entry", prev_entry[t])
       ELSE Goto(t, "u49", "u53") /\ UNCHANGED <<heap, status>>
    /\ UNCHANGED <<jit_debug_descriptor, allocated, entry, next_entry, prev_entry,
                   addr, size, ghost_vars>>
    /\ UNCHANGED symfile

\* lines 53-55 without the store: the predecessor keeps pointing at the entry
u53_no_relink(t) ==
    /\ Goto(t, "u53", IF prev_entry[t] # NULL THEN "u61" ELSE "u56")
    /\ UNCHANGED <<jit_debug_descriptor, heap, allocated, status, entry,
                   next_entry, prev_entry, addr, size, ghost_vars>>
    /\ UNCHANGED symfile

\* lines 53-55: if (prev_entry != NULL) prev_entry->next_entry = next_entry
\*              else (line 56)
u53(t) ==
    /\ IF prev_entry[t] # NULL
       THEN Store(t, "u53", "u61", prev_entry[t], "next_entry", next_entry[t])
       ELSE Goto(t, "u53", "u56") /\ UNCHANGED <<heap, status>>
    /\ UNCHANGED <<jit_debug_descriptor, allocated, entry, next_entry, prev_entry,
                   addr, size, ghost_vars>>
    /\ UNCHANGED symfile

\* line 56 compiled with NDEBUG: the assertion is gone
u56_ndebug(t) ==
    /\ Goto(t, "u56", "u57")
    /\ UNCHANGED <<jit_debug_descriptor, heap, allocated, status, entry,
                   next_entry, prev_entry, addr, size, ghost_vars>>
    /\ UNCHANGED symfile

\* line 56: assert(__jit_debug_descriptor.first_entry == entry)
u56(t) ==
    /\ status = "running"
    /\ pc[t] = "u56"
    /\ IF jit_debug_descriptor.first_entry = entry[t]
       THEN pc' = [pc EXCEPT ![t] = "u57"] /\ status' = status
       ELSE pc' = pc /\ status' = "aborted"
    /\ UNCHANGED <<jit_debug_descriptor, heap, allocated, entry, next_entry,
                   prev_entry, addr, size, ghost_vars>>
    /\ UNCHANGED symfile

\* line 57 storing NULL instead of next_entry
u57_null_head(t) ==
    /\ Goto(t, "u57", "u61")
    /\ jit_debug_descriptor' =
          [jit_debug_descriptor EXCEPT !.first_entry = NULL]
    /\ UNCHANGED <<heap, allocated, status, entry, next_entry, prev_entry,
                   addr, size, ghost_vars>>
    /\ UNCHANGED symfile

\* line 57: __jit_debug_descriptor.first_entry = next_entry
u57(t) ==
    /\ Goto(t, "u57", "u61")
    /\ jit_debug_descriptor' =
          [jit_debug_descriptor EXCEPT !.first_entry = next_entry[t]]
    /\ UNCHANGED <<heap, allocated, status, entry, next_entry, prev_entry,
                   addr, size, ghost_vars>>
    /\ UNCHANGED symfile

\* line 61 preceded by entry->prev_entry = entry->next_entry = NULL
u61_clear_links(t) ==
    /\ Goto(t, "u61", "u62")
    /\ heap' = [heap EXCEPT ![entry[t]].prev_entry = NULL,
                            ![entry[t]].next_entry = NULL]
    /\ jit_debug_descriptor' =
          [jit_debug_descriptor EXCEPT !.action_flag = JIT_UNREGISTER_FN]
    /\ UNCHANGED <<allocated, status, entry, next_entry, prev_entry,
                   addr, size, ghost_vars>>
    /\ UNCHANGED symfile

\* line 61 with the action stored into the version field
u61_into_version(t) ==
    /\ Goto(t, "u61", "u62")
    /\ jit_debug_descriptor' =
          [jit_debug_descriptor EXCEPT !.version = JIT_UNREGISTER_FN]
    /\ UNCHANGED <<heap, allocated, status, entry, next_entry, prev_entry,
                   addr, size, ghost_vars>>
    /\ UNCHANGED symfile

\* line 61: __jit_debug_descriptor.action_flag = JIT_UNREGISTER_FN
u61(t) ==
    /\ Goto(t, "u61", "u62")
    /\ jit_debug_descriptor' =
          [jit_debug_descriptor EXCEPT !.action_flag = JIT_UNREGISTER_FN]
    /\ UNCHANGED <<heap, allocated, status, entry, next_entry, prev_entry,
                   addr, size, ghost_vars>>
    /\ UNCHANGED symfile

\* line 62 with the free of line 65 moved before the notification
u62_free_early(t) ==
    /\ Goto(t, "u62", "u63")
    /\ jit_debug_descriptor' =
          [jit_debug_descriptor EXCEPT !.relevant_entry = entry[t]]
    /\ allocated' = allocated \ {entry[t]}
    /\ heap' = [heap EXCEPT ![entry[t]] = Indeterminate]
    /\ UNCHANGED <<status, entry, next_entry, prev_entry, addr, size, ghost_vars>>
    /\ UNCHANGED symfile

\* line 62: __jit_debug_descriptor.relevant_entry = entry
u62(t) ==
    /\ Goto(t, "u62", "u63")
    /\ jit_debug_descriptor' =
          [jit_debug_descriptor EXCEPT !.relevant_entry = entry[t]]
    /\ UNCHANGED <<heap, allocated, status, entry, next_entry, prev_entry,
                   addr, size, ghost_vars>>
    /\ UNCHANGED symfile

\* line 63: __jit_debug_register_code()
u63(t) ==
    /\ Goto(t, "u63", "u65")
    /\ jit_debug_register_code(t)
    /\ UNCHANGED <<jit_debug_descriptor, heap, allocated, status, entry,
                   next_entry, prev_entry, addr, size,
                   handles, pair, given, regOrder, drain>>
    /\ UNCHANGED symfile

\* line 65 followed by __jit_debug_descriptor.relevant_entry = NULL
u65_clear_relevant(t) ==
    /\ status = "running"
    /\ pc[t] = "u65"
    /\ IF entry[t] \in allocated
       THEN /\ allocated' = allocated \ {entry[t]}
            /\ heap' = [heap EXCEPT ![entry[t]] = Indeterminate]
            /\ status' = status
            /\ pc' = [pc EXCEPT ![t] = "idle"]
       ELSE /\ allocated' = allocated
            /\ heap' = heap
            /\ \E outcome \in {"abort", "unnoticed"} :
                  IF outcome = "abort"
                  THEN status' = "aborted" /\ pc' = pc
                  ELSE status' = status /\ pc' = [pc EXCEPT ![t] = "idle"]
    /\ IF pc'[t] = "idle"
       THEN /\ call' = [call EXCEPT !.done = TRUE, !.addr = NULL, !.size = 0,
                                    !.first = NULL, !.links = <<>>]
            /\ hooks' = [hooks EXCEPT ![t] = 0]
            /\ entry' = [entry EXCEPT ![t] = NULL]
            /\ next_entry' = [next_entry EXCEPT ![t] = NULL]
            /\ prev_entry' = [prev_entry EXCEPT ![t] = NULL]
       ELSE UNCHANGED <<call, hooks, entry, next_entry, prev_entry>>
    /\ jit_debug_descriptor' = [jit_debug_descriptor EXCEPT !.relevant_entry = NULL]
    /\ UNCHANGED <<addr, size,
                   handles, pair, given, regOrder, drain>>
    /\ UNCHANGED symfile

\* line 65: free(entry), then return.  free of a cell that is not allocated
\* is undefined: the allocator aborts the process or does not notice.
u65(t) ==
    /\ status = "running"
    /\ pc[t] = "u65"
    /\ IF entry[t] \in allocated
       THEN /\ allocated' = allocated \ {entry[t]}
            /\ heap' = [heap EXCEPT ![entry[t]] = Indeterminate]
            /\ status' = status
            /\ pc' = [pc EXCEPT ![t] = "idle"]
       ELSE /\ allocated' = allocated
            /\ heap' = heap
            /\ \E outcome \in {"abort", "unnoticed"} :
                  IF outcome = "abort"
                  THEN status' = "aborted" /\ pc' = pc
                  ELSE status' = status /\ pc' = [pc EXCEPT ![t] = "idle"]
    /\ IF pc'[t] = "idle"
       THEN /\ call' = [call EXCEPT !.done = TRUE, !.addr = NULL, !.size = 0,
                                    !.first = NULL, !.links = <<>>]
            /\ hooks' = [hooks EXCEPT ![t] = 0]
            /\ entry' = [entry EXCEPT ![t] = NULL]
            /\ next_entry' = [next_entry EXCEPT ![t] = NULL]
            /\ prev_entry' = [prev_entry EXCEPT ![t] = NULL]
       ELSE UNCHANGED <<call, hooks, entry, next_entry, prev_entry>>
    /\ UNCHANGED <<jit_debug_descriptor, addr, size,
                   handles, pair, given, regOrder, drain>>
    /\ UNCHANGED symfile

unregister_jit_code(t) ==
    \/ u45(t) \/ u46(t) \/ u49(t) \/ u53(t) \/ u56(t) \/ u57(t)
    \/ u61(t) \/ u62(t) \/ u63(t) \/ u65(t)

(* --------------------------- specifications --------------------------- *)

\* callers keep the contract and serialise; every allocation succeeds
Next ==
    \E t \in Threads :
        \/ CallRegister(t) \/ register_jit_code(t)
        \/ CallUnregister(t) \/ unregister_jit_code(t)

Spec == Init /\ [][Next]_vars

\* as Spec, and malloc may fail
NextAlloc == Next \/ \E t \in Threads : r20_fail(t)

SpecAlloc == Init /\ [][NextAlloc]_vars

\* as Spec, and a caller may unregister the same handle twice in a row
NextMisuse == Next \/ \E t \in Threads : CallUnregisterAgain(t)

SpecMisuse == Init /\ [][NextMisuse]_vars

\* callers that register only, and may let two register calls overlap
NextConc ==
    \E t \in Threads : CallRegisterUnserialised(t) \/ register_jit_code(t)

SpecConc == Init /\ [][NextConc]_vars

(* ------------------------------ the list ------------------------------ *)

first_entry == jit_debug_descriptor.first_entry

\* the entries reached from p by following next_entry (links l), at most n of them
RECURSIVE Chain(_, _, _)
Chain(l, p, n) ==
    IF p \notin Addr \/ n = 0 THEN <<>> ELSE <<p>> \o Chain(l, l[p][1], n - 1)

\* following next_entry from p ends at NULL within n entries: finite and acyclic
RECURSIVE EndsAtNull(_, _, _)
EndsAtNull(l, p, n) ==
    IF p = NULL THEN TRUE
    ELSE IF p \notin Addr \/ n = 0 THEN FALSE
    ELSE EndsAtNull(l, l[p][1], n - 1)

Range(q) == {q[i] : i \in 1..Len(q)}

\* the list the debugger sees
List == Chain(Links(heap), first_entry, MaxEntries + 1)

\* e's neighbours point back at e
Consistent(e) ==
    LET n == heap[e].next_entry
        p == heap[e].prev_entry
    IN  /\ n \in Ptr /\ p \in Ptr
        /\ n \in Addr => heap[n].prev_entry = e
        /\ p \in Addr => heap[p].next_entry = e

\* the entries registered at this moment: the handles callers hold, and the
\* entry of a register call that has reached its notification
Registered ==
    handles \cup {entry[t] : t \in {u \in Threads : pc[u] \in {"r37", "r39"}}}

ListValid ==
    /\ EndsAtNull(Links(heap), first_entry, MaxEntries)
    /\ first_entry = NULL <=> Registered = {}
    /\ first_entry # NULL => heap[first_entry].prev_entry = NULL
    /\ \A e \in Range(List) : Consistent(e)

\* between calls, and while a call is in the notification hook or past it
Observable == \A t \in Threads : pc[t] \in {"idle", "r37", "r39", "u63", "u65"}

AtHook(t) == pc[t] \in {"r37", "u63"}

(* ------------------------------- claims ------------------------------- *)

\* C1: whenever callers keep the contract, after each call and at each
\* invocation of the notification hook the list reached from first_entry is
\* finite and acyclic, first_entry is empty iff no entry is registered, the
\* head's prev_entry is empty, and every reachable entry's neighbours point
\* back at it.
C1_ListInvariant == Observable => ListValid

\* the hook is invoked by an unregister that took an entry out of the middle
\* of a three-entry list
C1_Witness ==
    \E t \in Threads : pc[t] = "u63" /\ drain.mid /\ Len(List) = 2 /\ ListValid

\* the lines of a call that come before its notification
BeforeHook == {"r20", "r21", "r22", "r25", "r26", "r27", "r29", "r34", "r35", "r36",
               "u45", "u46", "u49", "u53", "u56", "u57", "u61", "u62"}

C2_AtHook ==
    \A t \in Threads :
        /\ pc[t] = "r37" =>
              /\ jit_debug_descriptor.action_flag = JIT_REGISTER_FN
              /\ jit_debug_descriptor.relevant_entry = call.entry
              /\ call.op = "register" /\ call.entry \in allocated \ handles
              /\ hooks[t] = 0
        /\ pc[t] = "u63" =>
              /\ jit_debug_descriptor.action_flag = JIT_UNREGISTER_FN
              /\ jit_debug_descriptor.relevant_entry = call.entry
              /\ call.op = "unregister"
              /\ hooks[t] = 0
        /\ pc[t] \in {"r39", "u65"} => hooks[t] = 1
        /\ pc[t] \in BeforeHook \cup {"idle"} => hooks[t] = 0

C2_Step ==
    /\ \A t \in Threads : hooks'[t] > hooks[t] => AtHook(t) /\ hooks'[t] = hooks[t] + 1
    /\ jit_debug_descriptor' # jit_debug_descriptor =>
          \E t \in Threads : pc[t] \in BeforeHook /\ hooks[t] = 0 /\ pc'[t] # pc[t]

\* C2: the notification hook is invoked exactly once per register call, with
\* action_flag = REGISTER and relevant_entry = the new entry, and exactly once
\* per unregister call, with action_flag = UNREGISTER and relevant_entry = the
\* entry being removed, and at no other time; a call writes the descriptor
\* only before its hook invocation.
C2_HookOncePerCall == []C2_AtHook /\ [][C2_Step]_vars

\* an unregister call has invoked the hook once and is about to free the entry
C2_Witness ==
    \E t \in Threads :
        /\ pc[t] = "u65" /\ hooks[t] = 1
        /\ jit_debug_descriptor.action_flag = JIT_UNREGISTER_FN
        /\ jit_debug_descriptor.relevant_entry = entry[t]

\* C3: a second unregister_jit_code of an already unregistered handle is always
\* rejected: it never invokes the notification hook and never runs to
\* completion.
C3_DoubleUnregisterRejected ==
    (call.op = "unregister" /\ call.stale) =>
        /\ ~call.done
        /\ \A t \in Threads : pc[t] \notin {"u63", "u65"} /\ hooks[t] = 0

\* what register_jit_code hands back is an error indication, not a pointer
ExplicitError(r) == r \notin Ptr

C4_State ==
    call.alloc_failed =>
        /\ status = "running"
        /\ \A t \in Threads : ~AtHook(t) /\ hooks[t] = 0
        /\ call.done => ExplicitError(call.result)

C4_Step ==
    call.alloc_failed =>
        /\ jit_debug_descriptor' = jit_debug_descriptor
        /\ Links(heap') = Links(heap)

\* C4: when the allocation inside register_jit_code fails, the call reports
\* an explicit error to its caller, leaves the descriptor and every entry's
\* links as they were, and does not invoke the notification hook.
C4_AllocFailureReported == []C4_State /\ [][C4_Step]_vars

\* caller t's unregister call has read an empty prev_entry from its entry,
\* which is not the head of the list
HeadCheckFails(t) ==
    /\ pc[t] \in {"u46", "u49", "u53", "u56"}
    /\ prev_entry[t] = NULL
    /\ first_entry # entry[t]

C5_Step ==
    \A t \in Threads :
        /\ pc[t] \in {"u45", "u46", "u49", "u53", "u56"} =>
              /\ jit_debug_descriptor' = jit_debug_descriptor
              /\ hooks' = hooks
        /\ HeadCheckFails(t) =>
              /\ pc'[t] \in {"u46", "u49", "u53", "u56"}
              /\ pc[t] = "u56" => status' = "aborted"

C5_State ==
    \A t \in Threads :
        (status = "aborted" /\ pc[t] = "u56") =>
            /\ first_entry = call.first
            /\ hooks[t] = 0

\* C5: an unregister_jit_code call whose entry has an empty prev_entry but is
\* not first_entry aborts at the assertion: the call updates none of
\* first_entry, action_flag, relevant_entry and does not invoke the hook.
C5_HeadCheckIsFatal == []C5_State /\ [][C5_Step]_vars

\* the assertion has stopped a repeated unregister of a handle
C5_Witness ==
    \E t \in Threads :
        /\ status = "aborted" /\ pc[t] = "u56"
        /\ call.stale /\ call.entry = entry[t] /\ entry[t] \notin allocated
        /\ prev_entry[t] = NULL /\ first_entry # entry[t]

\* C6: register_jit_code followed at once by unregister_jit_code of the handle
\* it returned leaves first_entry, the sequence of entries reached from it,
\* and every surviving entry's prev_entry and next_entry as before the pair.
C6_RegisterUnregisterRestores ==
    (Idle /\ pair.valid /\ call.done) =>
        /\ first_entry = pair.first
        /\ List = Chain(pair.links, pair.first, MaxEntries + 1)
        /\ \A e \in allocated : Links(heap)[e] = pair.links[e]

\* such a pair has completed on a list of two entries
C6_Witness ==
    /\ Idle /\ pair.valid /\ call.done /\ call.op = "unregister"
    /\ call.entry = pair.entry /\ pair.entry \notin allocated
    /\ Len(List) = 2

\* C7: when every registered entry is unregistered exactly once, in any
\* order, the list is valid after every call and first_entry is empty once
\* the last entry is gone.
C7_AnyOrderDrains ==
    Idle =>
        /\ EndsAtNull(Links(heap), first_entry, MaxEntries)
        /\ Range(List) = handles /\ Len(List) = Cardinality(handles)
        /\ \A e \in Range(List) : Consistent(e)
        /\ handles = {} => first_entry = NULL

\* three entries were unregistered in a row, the first of them from the
\* middle of the list, and the list is empty
C7_Witness ==
    /\ Idle /\ call.done /\ call.op = "unregister"
    /\ drain.n = 3 /\ drain.mid /\ handles = {} /\ first_entry = NULL

C8_Linked ==
    /\ call.entry = first_entry
    /\ heap[call.entry].prev_entry = NULL
    /\ heap[call.entry].next_entry = call.first
    /\ heap[call.entry].symfile_addr = call.addr
    /\ heap[call.entry].symfile_size = call.size

\* C8: a register_jit_code call whose allocation succeeds yields an entry
\* that, at the hook invocation and after the return, is first_entry, has an
\* empty prev_entry, has the former first_entry as next_entry, and holds the
\* given buffer reference and size (size 0 included).
C8_RegisterLinksAtHead ==
    (call.op = "register" /\ ~call.alloc_failed) =>
        /\ (\E t \in Threads : pc[t] \in {"r37", "r39"}) => C8_Linked
        /\ (Idle /\ call.done) => (call.result = call.entry /\ C8_Linked)

\* a buffer of size 0 has been registered in front of another entry
C8_Witness ==
    /\ Idle /\ call.op = "register" /\ call.done
    /\ call.size = 0 /\ call.first # NULL /\ call.entry = first_entry

\* nothing the debugger can follow leads to e
Unlinked(e) ==
    /\ first_entry # e
    /\ e \notin Range(List)
    /\ \A a \in handles : heap[a].next_entry # e /\ heap[a].prev_entry # e

\* C9: from the hook invocation of unregister_jit_code(e) on, e is not
\* reachable from first_entry, neither first_entry nor any remaining entry's
\* next_entry or prev_entry refers to e, and the list invariants hold.
C9_RemovedEntryUnlinked ==
    /\ \A t \in Threads : pc[t] \in {"u63", "u65"} => Unlinked(entry[t]) /\ ListValid
    /\ (Idle /\ call.op = "unregister" /\ call.done) => Unlinked(call.entry) /\ ListValid

\* the hook is invoked for an entry that had a neighbour on either side
C9_Witness ==
    \E t \in Threads :
        /\ pc[t] = "u63" /\ drain.mid /\ Cardinality(handles) = 2
        /\ prev_entry[t] # NULL /\ next_entry[t] # NULL

\* the cells in use by a call: a register call's new entry from malloc on,
\* an unregister call's entry until free
InCall ==
    {entry[t] : t \in {u \in Threads : pc[u] \in
        {"r21", "r22", "r25", "r26", "r27", "r29", "r34", "r35", "r36", "r37", "r39",
         "u45", "u46", "u49", "u53", "u56", "u57", "u61", "u62", "u63", "u65"}}}

C10_State ==
    /\ allocated = handles \cup InCall
    /\ \A t \in Threads :
          pc[t] = "u63" =>
              /\ entry[t] \in allocated
              /\ heap[entry[t]].symfile_addr = call.addr
              /\ heap[entry[t]].symfile_size = call.size
              /\ call.addr \in Bufs /\ call.size = BufLen(call.addr)

C10_Step ==
    \A a \in allocated \ allocated' :
        \E t \in Threads :
            /\ pc[t] = "u65" /\ entry[t] = a /\ hooks[t] = 1
            /\ call.op = "unregister" /\ call.entry = a /\ pc'[t] = "idle"

\* C10: unregister_jit_code releases the entry only after the hook has
\* returned; at the hook invocation the entry is still allocated and holds
\* the symfile_addr and symfile_size given at registration; an entry is
\* allocated exactly from its register call to the end of its unregister call
\* and no other call releases it.
C10_FreedAfterHook == []C10_State /\ [][C10_Step]_vars

\* the hook is invoked for an entry being removed while another stays registered
C10_Witness ==
    \E t \in Threads :
        /\ pc[t] = "u63" /\ entry[t] \in allocated /\ handles # {}
        /\ heap[entry[t]].symfile_addr = call.addr /\ call.addr \in Bufs

\* ---------------------------------------------------------------------------
\* C11: the callers' symbol-file buffers are never freed or changed, and every
\* registered entry's symfile_addr and symfile_size are the arguments of its
\* own register call for as long as it is registered: no statement of a
\* register or unregister call of another entry changes them.
C11_State ==
    /\ symfile = CallerBuffers
    /\ \A a \in handles :
          /\ a \in allocated
          /\ heap[a].symfile_addr = given[a][1]
          /\ heap[a].symfile_size = given[a][2]

C11_Step ==
    /\ symfile' = symfile
    /\ \A a \in handles \cap handles' :
          /\ heap'[a].symfile_addr = heap[a].symfile_addr
          /\ heap'[a].symfile_size = heap[a].symfile_size
          /\ given'[a] = given[a]

C11_SymfileUntouched == []C11_State /\ [][C11_Step]_vars

\* two entries registered with different buffers, a third call (a register
\* or an unregister of another entry) past all its stores
C11_Witness ==
    /\ \E a, b \in handles : given[a][1] # given[b][1]
    /\ \E t \in Threads : pc[t] \in {"r37", "u63"}

\* ---------------------------------------------------------------------------
\* C12: the descriptor's version is 1 from the initial state on and no
\* statement of a call changes it; until the first call begins action_flag
\* is JIT_NOACTION and relevant_entry and first_entry are NULL.
C12_State ==
    /\ jit_debug_descriptor.version = 1
    /\ call.op = "none" =>
          /\ jit_debug_descriptor.action_flag = JIT_NOACTION
          /\ jit_debug_descriptor.relevant_entry = NULL
          /\ jit_debug_descriptor.first_entry = NULL

C12_Step == jit_debug_descriptor'.version = jit_debug_descriptor.version

C12_VersionFixed == []C12_State /\ [][C12_Step]_vars

\* a register and an unregister call have both written the descriptor
C12_Witness ==
    /\ jit_debug_descriptor.version = 1
    /\ jit_debug_descriptor.action_flag = JIT_UNREGISTER_FN
    /\ jit_debug_descriptor.relevant_entry # NULL
    /\ handles # {}
    /\ Idle

\* ---------------------------------------------------------------------------
\* C13: when unregister_jit_code invokes the notification hook the removed
\* entry's own prev_entry and next_entry are both NULL, and the node is still
\* allocated.
C13_LinksCleared ==
    \A t \in Threads :
        pc[t] = "u63" =>
            /\ entry[t] \in allocated
            /\ heap[entry[t]].prev_entry = NULL
            /\ heap[entry[t]].next_entry = NULL

\* C13 as the code has it: unregister_jit_code never stores to the removed
\* entry itself, so when it invokes the hook the node is still allocated and
\* its prev_entry and next_entry are the ones it had when the call began
\* (NULL only where it had no such neighbour).
C13_LinksKept ==
    \A t \in Threads :
        pc[t] = "u63" =>
            /\ entry[t] \in allocated
            /\ Links(heap)[entry[t]] = call.links[entry[t]]
            /\ heap[entry[t]].symfile_addr = call.addr
            /\ heap[entry[t]].symfile_size = call.size

\* the hook of an unregister call of an entry that had both neighbours
C13_Witness ==
    \E t \in Threads :
        /\ pc[t] = "u63"
        /\ heap[entry[t]].prev_entry \in Addr
        /\ heap[entry[t]].next_entry \in Addr

\* ---------------------------------------------------------------------------
\* the links of every cell but the next_entry of cell p and the prev_entry
\* of cell n are as they were when the call in progress began
OtherLinksKept(p, n) ==
    \A a \in Addr :
        /\ a # p => heap[a].next_entry = call.links[a][1]
        /\ a # n => heap[a].prev_entry = call.links[a][2]

\* what unregister_jit_code(e) has done to the list once its stores of
\* lines 49-57 are over, against the list as it was when the call began
UnregisterEffect ==
    LET e == call.entry
        n == call.links[e][1]
        p == call.links[e][2]
    IN  /\ OtherLinksKept(p, n)
        /\ IF p # NULL
           THEN /\ first_entry = call.first
                /\ heap[p].next_entry = n
                /\ n # NULL => heap[n].prev_entry = p
           ELSE /\ call.first = e
                /\ first_entry = n
                /\ n # NULL => heap[n].prev_entry = NULL

\* C14: unregistering an entry that has a previous neighbour leaves
\* first_entry unchanged, makes that neighbour's next_entry the removed
\* entry's next_entry and the next neighbour's prev_entry (if there is one)
\* the removed entry's prev_entry, and changes no other link; unregistering
\* the head makes first_entry its next_entry and that entry's prev_entry NULL.
C14_UnregisterRelinks ==
    \A t \in Threads : pc[t] \in {"u61", "u62", "u63", "u65"} => UnregisterEffect

\* an unregister call past its stores whose entry had a neighbour on both
\* sides, with a third entry registered besides
C14_Witness ==
    \E t \in Threads :
        /\ pc[t] = "u65"
        /\ call.links[call.entry][1] \in Addr
        /\ call.links[call.entry][2] \in Addr
        /\ heap[call.links[call.entry][2]].next_entry = call.links[call.entry][1]

\* ---------------------------------------------------------------------------
\* C15: between the return of a call and the beginning of the next one
\* action_flag and relevant_entry are the ones the returned call has set;
\* after unregister_jit_code(e) has returned relevant_entry is still e, though
\* e has been freed and is not reachable from first_entry.
C15_State ==
    (Idle /\ call.done /\ call.op # "none") =>
        /\ jit_debug_descriptor.relevant_entry = call.entry
        /\ call.op = "register" =>
              /\ jit_debug_descriptor.action_flag = JIT_REGISTER_FN
              /\ call.entry \in allocated
        /\ call.op = "unregister" =>
              /\ jit_debug_descriptor.action_flag = JIT_UNREGISTER_FN
              /\ call.entry \notin allocated
              /\ call.entry \notin Range(List)
              /\ first_entry # call.entry

\* only the statements of lines 34, 36, 61 and 62 change the two fields
C15_Step ==
    (\A t \in Threads : pc[t] \notin {"r34", "r36", "u61", "u62"}) =>
        /\ jit_debug_descriptor'.action_flag = jit_debug_descriptor.action_flag
        /\ jit_debug_descriptor'.relevant_entry = jit_debug_descriptor.relevant_entry

C15_DescriptorKeepsLastCall == []C15_State /\ [][C15_Step]_vars

\* unregister_jit_code(e) has returned, other entries are still registered
\* and relevant_entry is the freed e
C15_Witness ==
    /\ Idle /\ call.done /\ call.op = "unregister"
    /\ jit_debug_descriptor.relevant_entry = call.entry
    /\ call.entry \in Addr \ allocated
    /\ first_entry # NULL

\* ---------------------------------------------------------------------------
Reverse(q) == [i \in 1..Len(q) |-> q[Len(q) + 1 - i]]

\* regOrder gains an entry at the return of each register call and loses one
\* at each unregister call: its length is the number of register calls
\* minus the number of unregister calls
CallBalance == Len(regOrder)

\* C16: after any sequence of valid calls the entries reached from
\* first_entry through next_entry are exactly the entries registered and not
\* yet unregistered, each once, the most recently registered first; there are
\* as many as register calls minus unregister calls, and none of them is freed.
C16_ListIsRegisteredNewestFirst ==
    Idle =>
        /\ EndsAtNull(Links(heap), first_entry, MaxEntries)
        /\ List = Reverse(regOrder)
        /\ Range(List) = handles
        /\ Cardinality(Range(List)) = Len(List)
        /\ Len(List) = CallBalance
        /\ Range(List) \subseteq allocated
        /\ \A a \in Addr \ allocated : a \notin Range(List)

\* two entries are left, in the order of their registration, after the one
\* registered between them has been unregistered and freed
C16_Witness ==
    /\ Idle /\ call.done /\ call.op = "unregister" /\ drain.mid
    /\ Len(regOrder) = 2
    /\ List = <<regOrder[2], regOrder[1]>>
    /\ call.entry \notin allocated

\* ---------------------------------------------------------------------------
\* C17: register_jit_code has no mutual exclusion of its own: whatever line
\* another caller's call is at, the next statement of a call in progress can
\* be executed.  The list invariants therefore rest on the callers: between
\* calls the list is valid and holds every registered entry unless two calls
\* have overlapped, and a hook invocation sees descriptor values of another
\* call only when two calls have overlapped.
C17_NoMutualExclusion ==
    /\ \A t \in Threads :
          (status = "running" /\ pc[t] \in RegisterLines) => ENABLED register_jit_code(t)
    /\ (Idle /\ ~(ListValid /\ Range(List) = handles)) => call.overlap
    /\ call.mixed => call.overlap

\* two overlapping register calls have both returned: one of the two new
\* entries is not reachable from first_entry, and a hook invocation has seen
\* action_flag, relevant_entry and first_entry that were not all its own call's
C17_Witness ==
    /\ Idle /\ status = "running"
    /\ call.overlap /\ call.mixed
    /\ Cardinality(handles) >= 2
    /\ \E e \in handles : e \notin Range(List)
    /\ \E e \in handles : e \in Range(List)

\* ---------------------------------------------------------------------------
\* caller t is in a repeated unregister of a freed handle, past the loads of
\* lines 45-46
StaleCall(t) ==
    /\ call.stale
    /\ pc[t] \in {"u49", "u53", "u56", "u57", "u61", "u62", "u63", "u65"}

\* the loads from the freed entry have yielded the links the entry had when
\* it was removed (one of the outcomes of the undefined loads)
Retained(t) ==
    /\ next_entry[t] = call.removed[1]
    /\ prev_entry[t] = call.removed[2]

C18_State ==
    \A t \in Threads :
        /\ pc[t] \in {"u56", "u57"} => prev_entry[t] = NULL
        /\ (status = "aborted" /\ pc[t] \notin {"idle", "u65"}) => pc[t] = "u56"
        /\ (StaleCall(t) /\ Retained(t)) =>
              LET n == call.removed[1]
                  p == call.removed[2]
              IN  IF p = NULL
                  THEN /\ pc[t] \in {"u49", "u53", "u56"}
                       /\ first_entry # entry[t]
                       /\ hooks[t] = 0
                  ELSE /\ pc[t] \notin {"u56", "u57"}
                       /\ pc[t] # "u65" => status = "running"
                       /\ pc[t] \in {"u61", "u62", "u63", "u65"} =>
                             /\ heap[p].next_entry = n
                             /\ n # NULL => heap[n].prev_entry = p
                       /\ pc[t] \in {"u63", "u65"} =>
                             /\ jit_debug_descriptor.action_flag = JIT_UNREGISTER_FN
                             /\ jit_debug_descriptor.relevant_entry = entry[t]
                             /\ entry[t] \notin allocated
                       /\ pc[t] = "u65" => hooks[t] = 1

C18_Step ==
    \A t \in Threads :
        (StaleCall(t) /\ Retained(t) /\ call.removed[2] = NULL /\ pc[t] = "u56")
            => status' = "aborted"

\* C18: the assertion of line 56 is the only check in unregister_jit_code and
\* is evaluated only when the prev_entry loaded is NULL.  When the loads from
\* a freed entry yield the links it had when it was removed, a repeated
\* unregister of the handle aborts at the assertion if and only if the entry
\* had no previous neighbour then; if it had one, the call gets to the hook
\* without aborting, having stored next_entry and prev_entry into the
\* former neighbours and the freed entry into relevant_entry.
C18_RepeatAbortsIffWasHead == []C18_State /\ [][C18_Step]_vars

\* a repeated unregister of an entry that had both neighbours has invoked
\* the hook
C18_Witness ==
    \E t \in Threads :
        /\ pc[t] = "u65" /\ status = "running"
        /\ StaleCall(t) /\ Retained(t)
        /\ call.removed[1] # NULL /\ call.removed[2] # NULL
        /\ hooks[t] = 1
        /\ jit_debug_descriptor.relevant_entry = entry[t]
        /\ entry[t] \notin allocated

====
